---- MODULE Spec2Model ----
(***************************************************************************)
(* A model of Apostilas/alert_detector.py: the AlertDetector class, its    *)
(* validated configuration, its moving-average engine, its three detection *)
(* rules, their composition and the auto-tuner.                            *)
(*                                                                         *)
(* Numbers.  A Python value is a record [ty, num, den].  ty is the Python  *)
(* type ("int", "float", "str").  An int n is n/1.  A float is the exact   *)
(* rational num/den in lowest terms with den > 0, or one of the three      *)
(* special IEEE values: nan is 0/0, inf is 1/0 and -inf is -1/0.           *)
(* Comparisons follow IEEE 754: every ordered comparison with nan is       *)
(* false.  Rounding of float64 arithmetic is not modelled: the arithmetic  *)
(* is exact.                                                               *)
(***************************************************************************)
EXTENDS Integers, Sequences, FiniteSets, TLC

VARIABLES self, call

vars == <<self, call>>

(***************************************************************************)
(* Bounds of the model.                                                    *)
(***************************************************************************)
\* Half the number of samples of the accepted series (their length is even).
HalfLen == 11

(***************************************************************************)
(* Program constants.                                                      *)
(***************************************************************************)
LOWER_LIMIT == 100
UPPER_LIMIT == 1300
SLOW_MAVG_WINDOW == 20
FAST_MAVG_WINDOW == 5
MAVG_DELTA == 70
PLATEAU_LENGTH == 2000
PLATEAU_DELTA == 2
\* set_data accepts a series only if it has more than this many samples.
MinData == 20
\* The smallest windows and plateau length the setters accept.
MinSlow == 20
MinFast == 5
MinPlateauLength == 10

(***************************************************************************)
(* Python numbers.                                                         *)
(***************************************************************************)
Abs(n) == IF n < 0 THEN -n ELSE n

\* F applied to the value of e, which is computed once.
Let(e, F(_)) == CHOOSE r \in {F(v) : v \in {e}} : TRUE

RECURSIVE Gcd(_, _)
Gcd(a, b) == IF b = 0 THEN a ELSE Gcd(b, a % b)

Sign(n) == IF n < 0 THEN -1 ELSE IF n > 0 THEN 1 ELSE 0

PyInt(n) == [ty |-> "int", num |-> n, den |-> 1]

\* The float n/d; d = 0 gives nan (n = 0) or an infinity.
PyFloat(n, d) ==
    IF d = 0 THEN [ty |-> "float", num |-> Sign(n), den |-> 0]
    ELSE LET g == Gcd(Abs(n), Abs(d))
             s == IF d < 0 THEN -1 ELSE 1
         IN  [ty |-> "float", num |-> s * (n \div g), den |-> s * (d \div g)]

NaN == PyFloat(0, 0)
Inf == PyFloat(1, 0)
Str == [ty |-> "str", num |-> 0, den |-> 1]
\* An attribute the object does not have yet (hasattr is False).
Unset == [ty |-> "unset", num |-> 0, den |-> 1]

IsNaN(a) == a.den = 0 /\ a.num = 0
IsInt(a) == a.ty = "int"
IsFloat(a) == a.ty = "float"
hasattr(a) == a.ty # "unset"

\* a < b, a <= b, a = b on Python numbers (False whenever one is nan).
Lt(a, b) ==
    IF IsNaN(a) \/ IsNaN(b) THEN FALSE
    ELSE IF a.den = 0 /\ b.den = 0 THEN a.num < b.num
    ELSE a.num * b.den < b.num * a.den
Le(a, b) ==
    IF IsNaN(a) \/ IsNaN(b) THEN FALSE
    ELSE IF a.den = 0 /\ b.den = 0 THEN a.num <= b.num
    ELSE a.num * b.den <= b.num * a.den
Eq(a, b) ==
    IF IsNaN(a) \/ IsNaN(b) THEN FALSE
    ELSE IF a.den = 0 /\ b.den = 0 THEN a.num = b.num
    ELSE a.num * b.den = b.num * a.den
Gt(a, b) == Lt(b, a)
Ge(a, b) == Le(b, a)

\* Float arithmetic (inf - inf and 0 * inf are nan).
Add(a, b) ==
    IF IsNaN(a) \/ IsNaN(b) THEN NaN
    ELSE IF a.den = 0 /\ b.den = 0 THEN (IF a.num = b.num THEN a ELSE NaN)
    ELSE IF a.den = 0 THEN a
    ELSE IF b.den = 0 THEN b
    ELSE PyFloat(a.num * b.den + b.num * a.den, a.den * b.den)
Mul(a, b) ==
    IF a.den = 0 \/ b.den = 0 THEN PyFloat(Sign(a.num) * Sign(b.num), 0)
    ELSE PyFloat(a.num * b.num, a.den * b.den)
Neg(a) == [a EXCEPT !.num = -a.num]
AbsVal(a) == [a EXCEPT !.num = Abs(a.num)]
Sub(a, b) == Add(a, Neg(b))

(***************************************************************************)
(* The object.  self holds the seven configuration attributes and data;    *)
(* a setter is a function from the object and its argument to the object   *)
(* after the call and the value returned.                                  *)
(***************************************************************************)
NoneData == [kind |-> "NoneType", cols |-> [c \in {} |-> <<>>]]

\* The object as the class statement leaves it: only the class attribute data.
Blank ==
    [lower_limit |-> Unset, upper_limit |-> Unset,
     slow_mavg_window |-> Unset, fast_mavg_window |-> Unset,
     mavg_delta |-> Unset, plateau_length |-> Unset, plateau_delta |-> Unset,
     data |-> NoneData]

Returns(result, r) == [self |-> result, ret |-> r]

set_lower_limit(obj, lower_limit) ==
    IF ~IsFloat(lower_limit) /\ ~IsInt(lower_limit) THEN Returns(obj, "False")
    ELSE LET o == IF ~hasattr(obj.upper_limit)
                  THEN [obj EXCEPT !.upper_limit = Inf] ELSE obj
         IN  IF Le(o.upper_limit, lower_limit) THEN Returns(o, "False")
             ELSE Returns([o EXCEPT !.lower_limit = lower_limit], "True")

\* set_upper_limit comparing with > where the source has >=.
set_upper_limit_strict(obj, upper_limit) ==
    IF ~IsFloat(upper_limit) /\ ~IsInt(upper_limit) THEN Returns(obj, "False")
    ELSE IF Gt(obj.lower_limit, upper_limit) THEN Returns(obj, "False")
    ELSE Returns([obj EXCEPT !.upper_limit = upper_limit], "True")

set_upper_limit(obj, upper_limit) ==
    IF ~IsFloat(upper_limit) /\ ~IsInt(upper_limit) THEN Returns(obj, "False")
    ELSE IF Ge(obj.lower_limit, upper_limit) THEN Returns(obj, "False")
    ELSE Returns([obj EXCEPT !.upper_limit = upper_limit], "True")

set_slow_mavg_window(obj, slow_mavg_window) ==
    IF ~IsInt(slow_mavg_window) THEN Returns(obj, "False")
    ELSE LET o == IF ~hasattr(obj.fast_mavg_window)
                  THEN [obj EXCEPT !.fast_mavg_window = PyInt(5)] ELSE obj
         IN  IF Ge(o.fast_mavg_window, slow_mavg_window) THEN Returns(o, "False")
             ELSE IF Lt(slow_mavg_window, PyInt(MinSlow)) THEN Returns(o, "False")
             ELSE Returns([o EXCEPT !.slow_mavg_window = slow_mavg_window], "True")

set_fast_mavg_window(obj, fast_mavg_window) ==
    IF ~IsInt(fast_mavg_window) THEN Returns(obj, "False")
    ELSE IF Le(obj.slow_mavg_window, fast_mavg_window) THEN Returns(obj, "False")
    ELSE IF Lt(fast_mavg_window, PyInt(MinFast)) THEN Returns(obj, "False")
    ELSE Returns([obj EXCEPT !.fast_mavg_window = fast_mavg_window], "True")

\* The names locals() holds inside set_mavg_delta: its two parameters.
MavgDeltaLocals == {"self", "mavg_delta"}

set_mavg_delta(obj, mavg_delta) ==
    IF ~IsFloat(mavg_delta) /\ ~IsInt(mavg_delta) THEN Returns(obj, "False")
    ELSE IF /\ "self.upper_limit" \in MavgDeltaLocals
            /\ "self.lower_limit" \in MavgDeltaLocals
            /\ Le(Sub(obj.upper_limit, obj.upper_limit), mavg_delta)
         THEN Returns(obj, "False")
    ELSE Returns([obj EXCEPT !.mavg_delta = mavg_delta], "True")

set_plateau_length(obj, plateau_length) ==
    IF ~IsInt(plateau_length) THEN Returns(obj, "False")
    ELSE IF Lt(plateau_length, PyInt(MinPlateauLength)) THEN Returns(obj, "False")
    ELSE Returns([obj EXCEPT !.plateau_length = plateau_length], "True")

set_plateau_delta(obj, plateau_delta) ==
    IF ~IsFloat(plateau_delta) /\ ~IsInt(plateau_delta) THEN Returns(obj, "False")
    ELSE IF Lt(plateau_delta, PyInt(0)) THEN Returns(obj, "False")
    ELSE Returns([obj EXCEPT !.plateau_delta = plateau_delta], "True")

\* __init__: the seven setters, each with its default, in the source's order.
__init__ ==
    LET s1 == set_lower_limit(Blank, PyInt(LOWER_LIMIT)).self
        s2 == set_upper_limit(s1, PyInt(UPPER_LIMIT)).self
        s3 == set_slow_mavg_window(s2, PyInt(SLOW_MAVG_WINDOW)).self
        s4 == set_fast_mavg_window(s3, PyInt(FAST_MAVG_WINDOW)).self
        s5 == set_mavg_delta(s4, PyInt(MAVG_DELTA)).self
        s6 == set_plateau_length(s5, PyInt(PLATEAU_LENGTH)).self
    IN  set_plateau_delta(s6, PyInt(PLATEAU_DELTA)).self

(***************************************************************************)
(* Data.  A DataFrame is [kind |-> "DataFrame", cols |-> f], f a function  *)
(* from the names of its columns to sequences of equal length; anything    *)
(* else passed to set_data has another kind.                               *)
(***************************************************************************)
DataFrame(f) == [kind |-> "DataFrame", cols |-> f]
HasData(o) == o.data.kind = "DataFrame"
Col(o, c) == o.data.cols[c]
HasCol(o, c) == HasData(o) /\ c \in DOMAIN o.data.cols
\* data[c] = s: the column is added, or replaced when the frame has it.
SetCol(o, c, s) ==
    [o EXCEPT !.data = DataFrame((c :> s) @@ o.data.cols)]

set_data(obj, data) ==
    IF data.kind # "DataFrame" THEN Returns(obj, "False")
    ELSE IF "values" \notin DOMAIN data.cols THEN Returns(obj, "False")
    ELSE IF Len(data.cols["values"]) <= MinData THEN Returns(obj, "False")
    ELSE Returns([obj EXCEPT !.data = data], "True")

(***************************************************************************)
(* The rupture rule.                                                       *)
(***************************************************************************)
\* __maxmin_calc__ flagging the readings equal to a limit too.
maxmin_calc_inclusive(obj, value) ==
    IF Le(value, obj.lower_limit) \/ Ge(value, obj.upper_limit) THEN 1 ELSE 0

__maxmin_calc__(obj, value) ==
    IF Lt(value, obj.lower_limit) \/ Gt(value, obj.upper_limit) THEN 1 ELSE 0

\* With data = None, self.data.apply raises AttributeError.
detect_maxmin_rupture(obj) ==
    IF ~HasData(obj) THEN Returns(obj, "AttributeError")
    ELSE LET values == Col(obj, "values")
         IN  Returns(SetCol(obj, "maxmin_alert",
                            [i \in 1..Len(values) |-> __maxmin_calc__(obj, values[i])]),
                     "True")

(***************************************************************************)
(* The moving-average engine.                                              *)
(***************************************************************************)
RECURSIVE SumRange(_, _, _)
\* values[lo] + ... + values[hi], as an integer: the readings are ints.
SumRange(values, lo, hi) ==
    IF lo > hi THEN 0 ELSE values[lo].num + SumRange(values, lo + 1, hi)

\* np.convolve(values, np.ones(w), 'valid') / w.  numpy swaps the operands
\* when the second is the longer, so the result has max(N,w) - min(N,w) + 1
\* entries; with w > N each is the sum of the whole series over w.
ConvolveValid(values, w) ==
    LET N == Len(values)
    IN  IF w <= N
        THEN [k \in 1..(N - w + 1) |-> PyFloat(SumRange(values, k, k + w - 1), w)]
        ELSE [k \in 1..(w - N + 1) |-> PyFloat(SumRange(values, 1, N), w)]

\* A padding that repeats the last moving average computed.
PadLastMavg(values, w) ==
    [k \in 1..(w - 1) |-> ConvolveValid(values, w)[Len(ConvolveValid(values, w))]]

\* [list(values)[-1]] * (w - 1), as floats once concatenated.
Pad(values, w) ==
    [k \in 1..(w - 1) |-> PyFloat(values[Len(values)].num, 1)]

__moving_average__(obj, w) ==
    ConvolveValid(Col(obj, "values"), w) \o Pad(Col(obj, "values"), w)

\* data[c] = data['values']; data[c] = __moving_average__(w).values
\* The second assignment raises ValueError when the lengths differ, and the
\* column then keeps the raw values the first one gave it.
AssignMavg(obj, c, w) ==
    Let(SetCol(obj, c, Col(obj, "values")), LAMBDA o :
        Let(__moving_average__(o, w), LAMBDA m :
            IF Len(m) # Len(Col(o, "values")) THEN Returns(o, "ValueError")
            ELSE Returns(SetCol(o, c, m), "ok")))

DeltaMa(slow, fast) == [i \in 1..Len(slow) |-> Sub(slow[i], fast[i])]

\* With data = None, data['values'] raises TypeError.
__mavg_calc__(obj) ==
    IF ~HasData(obj) THEN Returns(obj, "TypeError")
    ELSE Let(AssignMavg(obj, "slow_ma", obj.slow_mavg_window.num), LAMBDA s :
             IF s.ret # "ok" THEN s
             ELSE Let(AssignMavg(s.self, "fast_ma", obj.fast_mavg_window.num), LAMBDA f :
                      IF f.ret # "ok" THEN f
                      ELSE Returns(SetCol(f.self, "delta_ma",
                                      DeltaMa(Col(f.self, "slow_ma"), Col(f.self, "fast_ma"))),
                                   "ok")))

(***************************************************************************)
(* The slope rule.                                                         *)
(***************************************************************************)
__mavg_delta_calc__(obj, delta_ma) ==
    IF Lt(delta_ma, Neg(obj.mavg_delta)) \/ Gt(delta_ma, obj.mavg_delta)
    THEN 1 ELSE 0

SlopeFlags(obj, delta) == [i \in 1..Len(delta) |-> __mavg_delta_calc__(obj, delta[i])]

detect_fast_slope(obj) ==
    Let(__mavg_calc__(obj), LAMBDA m :
        IF m.ret # "ok" THEN m
        ELSE Returns(SetCol(m.self, "delta_ma_alert",
                            SlopeFlags(obj, Col(m.self, "delta_ma"))), "True"))

(***************************************************************************)
(* The plateau rule.                                                       *)
(***************************************************************************)
\* The counter after a row: one more inside the plateau band, else 0.
Count(obj, delta_ma, pcnt) ==
    IF Lt(AbsVal(delta_ma), obj.plateau_delta) THEN pcnt + 1 ELSE 0

\* PlateauFlag comparing with >= where the source has >.
PlateauFlagFrom(obj, pcnt) == IF Ge(PyInt(pcnt), obj.plateau_length) THEN 1 ELSE 0

\* The flag of a row whose counter is pcnt.
PlateauFlag(obj, pcnt) == IF Gt(PyInt(pcnt), obj.plateau_length) THEN 1 ELSE 0

RECURSIVE PlateauScan(_, _, _, _, _)
\* The loop of detect_plateau from row i on, with the counter pcnt and the
\* flags alert of the rows before i.
PlateauScan(obj, delta, i, pcnt, alert) ==
    IF i > Len(delta) THEN alert
    ELSE Let(Count(obj, delta[i], pcnt), LAMBDA p :
             PlateauScan(obj, delta, i + 1, p, Append(alert, PlateauFlag(obj, p))))

detect_plateau(obj) ==
    Let(__mavg_calc__(obj), LAMBDA m :
        IF m.ret # "ok" THEN m
        ELSE Returns(SetCol(m.self, "plateau_alert",
                 PlateauScan(obj, Col(m.self, "delta_ma"), 1, 0, <<>>)), "True"))

(***************************************************************************)
(* The composer.  An exception raised by a rule ends detect_all there.     *)
(***************************************************************************)
LogicalOr(a, b) == [i \in 1..Len(a) |-> a[i] \/ b[i]]
Is1(col) == [i \in 1..Len(col) |-> col[i] = 1]
IsTrue(col) == [i \in 1..Len(col) |-> col[i] = TRUE]

\* Combine without its second assignment: the plateau flags are left out.
CombineRuptureSlope(obj) ==
    SetCol(obj, "alert", LogicalOr(Is1(Col(obj, "maxmin_alert")),
                                   Is1(Col(obj, "delta_ma_alert"))))

\* The two assignments to data['alert'] that end detect_all.
Combine(obj) ==
    Let(SetCol(obj, "alert", LogicalOr(Is1(Col(obj, "maxmin_alert")),
                                       Is1(Col(obj, "delta_ma_alert")))), LAMBDA first :
        SetCol(first, "alert",
               LogicalOr(IsTrue(Col(first, "alert")), Is1(Col(first, "plateau_alert")))))

detect_all(obj) ==
    Let(detect_maxmin_rupture(obj), LAMBDA r :
        IF r.ret # "True" THEN r
        ELSE Let(detect_fast_slope(r.self), LAMBDA s :
                 IF s.ret # "True" THEN s
                 ELSE Let(detect_plateau(s.self), LAMBDA p :
                          IF p.ret # "True" THEN p
                          ELSE Returns(Combine(p.self), "True"))))

(***************************************************************************)
(* The auto-tuner.  The readings are integers, so the mean and the         *)
(* variance of a series are computed from integer sums: with S the sum of  *)
(* the N readings, mean = S/N and mean(|x - mean|^2) = sum((N*x - S)^2)    *)
(* / N^3.                                                                  *)
(***************************************************************************)
RECURSIVE ISqrtIn(_, _, _)
\* The integer square root of n, between lo and hi.
ISqrtIn(n, lo, hi) ==
    IF lo >= hi THEN lo
    ELSE Let((lo + hi + 1) \div 2, LAMBDA mid :
             IF mid * mid <= n THEN ISqrtIn(n, mid, hi) ELSE ISqrtIn(n, lo, mid - 1))
ISqrt(n) == ISqrtIn(n, 0, IF n < 40000 THEN n ELSE 40000)

\* The square root of a float whose numerator and denominator are squares
\* (the series of the model have such variances).
Sqrt(a) == PyFloat(ISqrt(a.num), ISqrt(a.den))

\* np.mean
Mean(values) == PyFloat(SumRange(values, 1, Len(values)), Len(values))

RECURSIVE SumSqDev(_, _, _)
\* The sum of (N*values[j] - S)^2 for j from i on.
SumSqDev(values, S, i) ==
    IF i > Len(values) THEN 0
    ELSE (Len(values) * values[i].num - S) * (Len(values) * values[i].num - S)
         + SumSqDev(values, S, i + 1)

\* np.std: the population standard deviation sqrt(mean(|x - mean|^2)).
Std(values) ==
    Let(SumRange(values, 1, Len(values)), LAMBDA S :
        Let(PyFloat(SumSqDev(values, S, 1), Len(values) * Len(values) * Len(values)),
            LAMBDA var : Sqrt(var)))

\* The setters auto_tune calls, with the bounds it derived; their results are
\* discarded and auto_tune returns None.
Tune(obj, zsc_inf, zsc_sup) ==
    Let(set_lower_limit(obj, zsc_inf).self, LAMBDA s1 :
        Let(set_upper_limit(s1, zsc_sup).self, LAMBDA s2 :
            Let(set_mavg_delta(s2, Mul(PyFloat(1, 10), Sub(zsc_sup, zsc_inf))).self,
                LAMBDA s3 : Returns(s3, "None"))))

\* With data = None, self.data['values'] raises TypeError.
auto_tune(obj) ==
    IF ~HasData(obj) THEN Returns(obj, "TypeError")
    ELSE Let(Mean(Col(obj, "values")), LAMBDA mean :
             Let(Std(Col(obj, "values")), LAMBDA std :
                 Let(Sub(mean, Mul(PyFloat(5, 2), std)), LAMBDA zsc_inf :
                     Let(Add(mean, Mul(PyFloat(5, 2), std)), LAMBDA zsc_sup :
                         Tune(obj, zsc_inf, zsc_sup)))))

(***************************************************************************)
(* The inputs the callers pass.                                            *)
(***************************************************************************)
\* The length of the accepted series.
N == 2 * HalfLen

\* Integer readings around a level: constant, alternating low/high, a step
\* from low to high at the middle, or one spike at the middle.
Series(shape, level, amp, n) ==
    [i \in 1..n |->
        PyInt(CASE shape = "const" -> level
                [] shape = "alt" -> (IF i % 2 = 1 THEN level - amp ELSE level + amp)
                [] shape = "step" -> (IF 2 * i <= n THEN level - amp ELSE level + amp)
                [] shape = "spike" -> (IF i = n \div 2 THEN level + amp ELSE level))]

Frame(values) == DataFrame("values" :> values)

\* What set_data rejects: not a DataFrame, no 'values' column, 20 samples.
BadFrames ==
    { [kind |-> "list", cols |-> "values" :> Series("const", 500, 0, N)],
      DataFrame("readings" :> Series("const", 500, 0, N)),
      Frame(Series("const", 500, 0, MinData)) }

\* Series with an exact mean and standard deviation: (700, 100), (2000, 100)
\* and (700, 0).
TuneFrames ==
    { Frame(Series("alt", 700, 100, N)), Frame(Series("step", 2000, 100, N)),
      Frame(Series("const", 700, 0, N)) }

\* Arguments of the setters: accepted ones, ones out of range, ones of the
\* wrong type, and nan, which is a float.
LimitArgs == {PyInt(100), PyInt(700), PyInt(1300), NaN, Str}
SlowArgs == {PyInt(19), PyInt(N), PyFloat(25, 1)}
FastArgs == {PyInt(4), PyInt(6), PyInt(N), Str}
DeltaArgs == {PyInt(-1), PyInt(70), Str}
PlateauLengthArgs == {PyInt(9), PyInt(10), Str}
PlateauDeltaArgs == {PyInt(-1), PyInt(0), Str}

NoArg == [ty |-> "none", num |-> 0, den |-> 1]

(***************************************************************************)
(* The calls.  call records the last call: the method, its argument (for   *)
(* the setters) and what it returned or raised.                            *)
(***************************************************************************)
\* The record of a call of method name with argument arg and outcome r.
Called(name, arg, r) == [op |-> name, arg |-> arg, ret |-> r.ret]

SetData(d) ==
    /\ self' = set_data(self, d).self
    /\ call' = Called("set_data", NoArg, set_data(self, d))

SetLowerLimit(a) ==
    /\ self' = set_lower_limit(self, a).self
    /\ call' = Called("set_lower_limit", a, set_lower_limit(self, a))

SetUpperLimit(a) ==
    /\ self' = set_upper_limit(self, a).self
    /\ call' = Called("set_upper_limit", a, set_upper_limit(self, a))

SetSlowMavgWindow(a) ==
    /\ self' = set_slow_mavg_window(self, a).self
    /\ call' = Called("set_slow_mavg_window", a, set_slow_mavg_window(self, a))

SetFastMavgWindow(a) ==
    /\ self' = set_fast_mavg_window(self, a).self
    /\ call' = Called("set_fast_mavg_window", a, set_fast_mavg_window(self, a))

SetMavgDelta(a) ==
    /\ self' = set_mavg_delta(self, a).self
    /\ call' = Called("set_mavg_delta", a, set_mavg_delta(self, a))

SetPlateauLength(a) ==
    /\ self' = set_plateau_length(self, a).self
    /\ call' = Called("set_plateau_length", a, set_plateau_length(self, a))

SetPlateauDelta(a) ==
    /\ self' = set_plateau_delta(self, a).self
    /\ call' = Called("set_plateau_delta", a, set_plateau_delta(self, a))

DetectMaxminRupture ==
    /\ self' = detect_maxmin_rupture(self).self
    /\ call' = Called("detect_maxmin_rupture", NoArg, detect_maxmin_rupture(self))

DetectFastSlope ==
    /\ self' = detect_fast_slope(self).self
    /\ call' = Called("detect_fast_slope", NoArg, detect_fast_slope(self))

DetectPlateau ==
    /\ self' = detect_plateau(self).self
    /\ call' = Called("detect_plateau", NoArg, detect_plateau(self))

DetectAll ==
    /\ self' = detect_all(self).self
    /\ call' = Called("detect_all", NoArg, detect_all(self))

AutoTune ==
    /\ self' = auto_tune(self).self
    /\ call' = Called("auto_tune", NoArg, auto_tune(self))

\* The detector as constructed.
Init ==
    /\ self = __init__
    /\ call = [op |-> "__init__", arg |-> NoArg, ret |-> "None"]

(***************************************************************************)
(* The configuration store and the auto-tuner: every setter, with accepted *)
(* and rejected arguments, set_data and auto_tune.                         *)
(***************************************************************************)
NextConfig ==
    \/ \E d \in BadFrames \cup TuneFrames : SetData(d)
    \/ \E a \in LimitArgs : SetLowerLimit(a)
    \/ \E a \in LimitArgs : SetUpperLimit(a)
    \/ \E a \in SlowArgs : SetSlowMavgWindow(a)
    \/ \E a \in FastArgs : SetFastMavgWindow(a)
    \/ \E a \in DeltaArgs : SetMavgDelta(a)
    \/ \E a \in PlateauLengthArgs : SetPlateauLength(a)
    \/ \E a \in PlateauDeltaArgs : SetPlateauDelta(a)
    \/ AutoTune

SpecConfig == Init /\ [][NextConfig]_vars

(***************************************************************************)
(* The detection rules.  Each specification below calls set_data and the   *)
(* setters the rule reads, and the rule's own method; SpecAll calls the    *)
(* four detection methods.                                                 *)
(***************************************************************************)
\* A constant series, one that touches the default limits 100 and 1300, and
\* one with a single spike.
DetectFrames ==
    { Frame(Series("const", 700, 0, N)), Frame(Series("alt", 700, 600, N)),
      Frame(Series("spike", 700, 100, N)) }

NextRupture ==
    \/ \E d \in BadFrames \cup DetectFrames : SetData(d)
    \/ \E a \in LimitArgs : SetLowerLimit(a)
    \/ \E a \in LimitArgs : SetUpperLimit(a)
    \/ \E a \in {PyInt(N)} : SetSlowMavgWindow(a)
    \/ \E a \in {PyInt(-1)} : SetMavgDelta(a)
    \/ \E a \in {PyInt(0)} : SetPlateauDelta(a)
    \/ DetectMaxminRupture

SpecRupture == Init /\ [][NextRupture]_vars

NextMavg ==
    \/ \E d \in BadFrames \cup DetectFrames : SetData(d)
    \/ \E a \in SlowArgs \cup {PyInt(20), PyInt(N + 2)} : SetSlowMavgWindow(a)
    \/ \E a \in FastArgs \cup {PyInt(5)} : SetFastMavgWindow(a)
    \/ \E a \in {PyInt(10), PyInt(70)} : SetMavgDelta(a)
    \/ DetectFastSlope

SpecMavg == Init /\ [][NextMavg]_vars

NextPlateau ==
    \/ \E d \in BadFrames \cup DetectFrames : SetData(d)
    \/ \E a \in {PyInt(N), PyInt(N + 2)} : SetSlowMavgWindow(a)
    \/ \E a \in {PyInt(6)} : SetFastMavgWindow(a)
    \/ \E a \in PlateauLengthArgs \cup {PyInt(12), PyInt(2000)} : SetPlateauLength(a)
    \/ \E a \in PlateauDeltaArgs \cup {PyInt(2), PyFloat(1, 2), PyInt(30)} : SetPlateauDelta(a)
    \/ DetectPlateau

SpecPlateau == Init /\ [][NextPlateau]_vars

NextAll ==
    \/ \E d \in BadFrames \cup DetectFrames : SetData(d)
    \/ \E a \in {PyInt(700)} : SetUpperLimit(a)
    \/ \E a \in {PyInt(N + 2)} : SetSlowMavgWindow(a)
    \/ \E a \in {PyInt(10)} : SetMavgDelta(a)
    \/ \E a \in {PyInt(10)} : SetPlateauLength(a)
    \/ \E a \in {PyInt(0)} : SetPlateauDelta(a)
    \/ DetectMaxminRupture
    \/ DetectFastSlope
    \/ DetectPlateau
    \/ DetectAll

SpecAll == Init /\ [][NextAll]_vars

(***************************************************************************)
(* Properties of the configuration store and the auto-tuner.               *)
(***************************************************************************)
IsNumber(a) == IsInt(a) \/ IsFloat(a)

\* The four relational constraints of the configuration.
Constraints(obj) ==
    /\ Lt(obj.lower_limit, obj.upper_limit)
    /\ Lt(obj.fast_mavg_window, obj.slow_mavg_window)
    /\ Ge(obj.slow_mavg_window, PyInt(20))
    /\ Ge(obj.fast_mavg_window, PyInt(5))

\* C1: in every state reachable from construction by setter and auto_tune
\* calls, lower_limit < upper_limit, fast_mavg_window < slow_mavg_window,
\* slow_mavg_window >= 20 and fast_mavg_window >= 5.
C1_RelationalConstraints == Constraints(self)

\* The attribute each setter writes.
SetterField ==
    [set_lower_limit |-> "lower_limit", set_upper_limit |-> "upper_limit",
     set_slow_mavg_window |-> "slow_mavg_window",
     set_fast_mavg_window |-> "fast_mavg_window",
     set_mavg_delta |-> "mavg_delta", set_plateau_length |-> "plateau_length",
     set_plateau_delta |-> "plateau_delta"]

\* C2: a setter call either returns True and changes only its own attribute,
\* to the argument, or returns False and changes nothing (configuration and
\* data); set_upper_limit(u) with u <= lower_limit and set_lower_limit(l)
\* with l >= upper_limit, the bounds being those held when the call is made,
\* return False and change nothing.
C2_SetterOutcome ==
    [][call'.op \in DOMAIN SetterField =>
         /\ \/ /\ call'.ret = "True"
               /\ self' = [self EXCEPT ![SetterField[call'.op]] = call'.arg]
            \/ /\ call'.ret = "False"
               /\ self' = self
         /\ (call'.op = "set_upper_limit" /\ IsNumber(call'.arg)
               /\ Le(call'.arg, self.lower_limit))
             => (call'.ret = "False" /\ self' = self)
         /\ (call'.op = "set_lower_limit" /\ IsNumber(call'.arg)
               /\ Ge(call'.arg, self.upper_limit))
             => (call'.ret = "False" /\ self' = self)]_vars

\* set_upper_limit has just rejected a number that is not above lower_limit,
\* on a detector whose data is loaded.
C2_Witness ==
    /\ call.op = "set_upper_limit"
    /\ call.ret = "False"
    /\ IsNumber(call.arg)
    /\ Le(call.arg, self.lower_limit)
    /\ HasData(self)

\* The bounds auto_tune derives from the loaded series.
ZscInf(obj) ==
    Sub(Mean(Col(obj, "values")), Mul(PyFloat(5, 2), Std(Col(obj, "values"))))
ZscSup(obj) ==
    Add(Mean(Col(obj, "values")), Mul(PyFloat(5, 2), Std(Col(obj, "values"))))

\* C3: from a valid configuration and a loaded series with a standard
\* deviation above 0, auto_tune leaves lower_limit = mean - 2.5*std,
\* upper_limit = mean + 2.5*std and mavg_delta = 0.1*(upper_limit - lower_limit).
C3_AutoTuneSetsBounds ==
    [][(/\ call'.op = "auto_tune"
        /\ Constraints(self)
        /\ HasData(self)
        /\ Gt(Std(Col(self, "values")), PyInt(0)))
       => /\ Eq(self'.lower_limit, ZscInf(self))
          /\ Eq(self'.upper_limit, ZscSup(self))
          /\ Eq(self'.mavg_delta,
                Mul(PyFloat(1, 10), Sub(self'.upper_limit, self'.lower_limit)))]_vars

\* C8: in every state reachable from construction by setter and auto_tune
\* calls, mavg_delta (the slope delta) is not negative.
C8_SlopeDeltaNonNegative == Ge(self.mavg_delta, PyInt(0))

(***************************************************************************)
(* Properties of the detection rules.                                      *)
(***************************************************************************)
DetectOps ==
    {"detect_maxmin_rupture", "detect_fast_slope", "detect_plateau", "detect_all"}

\* C4: a detection method called while no series is loaded ends in a failure
\* signal of its own (a returned False or a not-ready error), not in an
\* unhandled Python error.
C4_NotReadySignal ==
    (call.op \in DetectOps /\ ~HasData(self))
        => call.ret \in {"False", "NotReadyError"}

\* C5: for every accepted series and every accepted window configuration,
\* the moving-average step succeeds and slow_ma, fast_ma and delta_ma have as
\* many entries as the series, as have the moving averages it computes.
C5_MavgLength ==
    (call.op = "detect_fast_slope" /\ HasData(self))
        => /\ call.ret = "True"
           /\ \A c \in {"slow_ma", "fast_ma", "delta_ma"} :
                 HasCol(self, c) /\ Len(Col(self, c)) = Len(Col(self, "values"))
           /\ Len(__moving_average__(self, self.slow_mavg_window.num))
                 = Len(Col(self, "values"))
           /\ Len(__moving_average__(self, self.fast_mavg_window.num))
                 = Len(Col(self, "values"))

\* C6: after detect_maxmin_rupture, the flag of sample i is 1 exactly when
\* values[i] < lower_limit or values[i] > upper_limit, and 0 otherwise,
\* whatever the other parameters and columns are; a series within
\* [lower_limit, upper_limit], bounds included, has no flag set.
C6_RuptureFlags ==
    (call.op = "detect_maxmin_rupture" /\ call.ret = "True")
        => LET values == Col(self, "values")
               flags == Col(self, "maxmin_alert")
           IN  /\ Len(flags) = Len(values)
               /\ \A i \in 1..Len(values) :
                     /\ flags[i] \in {0, 1}
                     /\ flags[i] = 1 <=> (\/ Lt(values[i], self.lower_limit)
                                          \/ Gt(values[i], self.upper_limit))
               /\ (\A i \in 1..Len(values) :
                      Le(self.lower_limit, values[i]) /\ Le(values[i], self.upper_limit))
                    => \A i \in 1..Len(values) : flags[i] = 0

\* detect_maxmin_rupture has run on a series with a reading equal to
\* lower_limit, which is not flagged, and a reading beyond a limit, which is.
C6_Witness ==
    /\ call.op = "detect_maxmin_rupture"
    /\ call.ret = "True"
    /\ \E i \in 1..Len(Col(self, "values")) :
          /\ Eq(Col(self, "values")[i], self.lower_limit)
          /\ Col(self, "maxmin_alert")[i] = 0
    /\ \E i \in 1..Len(Col(self, "values")) : Col(self, "maxmin_alert")[i] = 1
    /\ self.mavg_delta # PyInt(MAVG_DELTA)

\* C7: after detect_all returns, alert[i] is true exactly when one of the
\* rupture, slope and plateau flags of sample i is 1, and the three flag
\* columns are those the three rules give under the configuration in force;
\* the rupture rule runs first: its column is written even when the slope
\* rule then raises.
C7_CombinedAlert ==
    /\ (call.op = "detect_all" /\ call.ret = "True")
        => /\ \A i \in 1..Len(Col(self, "values")) :
                 Col(self, "alert")[i]
                    = (\/ Col(self, "maxmin_alert")[i] = 1
                       \/ Col(self, "delta_ma_alert")[i] = 1
                       \/ Col(self, "plateau_alert")[i] = 1)
           /\ Col(self, "maxmin_alert")
                 = Col(detect_maxmin_rupture(self).self, "maxmin_alert")
           /\ Col(self, "delta_ma_alert")
                 = Col(detect_fast_slope(self).self, "delta_ma_alert")
           /\ Col(self, "plateau_alert")
                 = Col(detect_plateau(self).self, "plateau_alert")
    /\ (call.op = "detect_all" /\ call.ret = "ValueError")
        => Col(self, "maxmin_alert")
              = Col(detect_maxmin_rupture(self).self, "maxmin_alert")

\* detect_all has returned with a sample flagged by the plateau rule alone,
\* one flagged by the rupture rule and one flagged by the slope rule alone.
C7_Witness ==
    /\ call.op = "detect_all"
    /\ call.ret = "True"
    /\ \E i \in 1..Len(Col(self, "values")) :
          /\ Col(self, "plateau_alert")[i] = 1
          /\ Col(self, "maxmin_alert")[i] = 0
          /\ Col(self, "delta_ma_alert")[i] = 0
          /\ Col(self, "alert")[i]
    /\ \E i \in 1..Len(Col(self, "values")) : Col(self, "maxmin_alert")[i] = 1
    /\ \E i \in 1..Len(Col(self, "values")) :
          Col(self, "delta_ma_alert")[i] = 1 /\ Col(self, "maxmin_alert")[i] = 0
    /\ \E i \in 1..Len(Col(self, "values")) : ~Col(self, "alert")[i]

\* The entries of the moving average column c of window w: the mean of
\* values[i..i+w-1] where the window fits, and the padding given by
\* PadValue elsewhere.
MavgIs(obj, c, w, PadValue(_)) ==
    LET values == Col(obj, "values")
        ma == Col(obj, c)
    IN  /\ Len(ma) = Len(values)
        /\ \A i \in 1..Len(values) :
              IF i <= Len(values) - w + 1
              THEN Eq(ma[i], PyFloat(SumRange(values, i, i + w - 1), w))
              ELSE Eq(ma[i], PadValue(ma))

MavgComputed == call.op = "detect_fast_slope" /\ call.ret = "True"

\* C9: for a window w and a series of N >= w samples, the moving average at
\* each position up to N - w is the mean of the w samples from it on, and
\* each of the last w - 1 positions holds the last moving average computed.
C9_PadWithLastMavg ==
    MavgComputed =>
        /\ MavgIs(self, "slow_ma", self.slow_mavg_window.num,
                  LAMBDA ma : ma[N - self.slow_mavg_window.num + 1])
        /\ MavgIs(self, "fast_ma", self.fast_mavg_window.num,
                  LAMBDA ma : ma[N - self.fast_mavg_window.num + 1])

\* C9 as amended: each of the last w - 1 positions holds the raw last
\* reading of the series.
C9_PadWithLastReading ==
    MavgComputed =>
        /\ MavgIs(self, "slow_ma", self.slow_mavg_window.num,
                  LAMBDA ma : Col(self, "values")[N])
        /\ MavgIs(self, "fast_ma", self.fast_mavg_window.num,
                  LAMBDA ma : Col(self, "values")[N])
        /\ Col(self, "delta_ma")
              = DeltaMa(Col(self, "slow_ma"), Col(self, "fast_ma"))

\* The moving averages have been computed, with a slow window shorter than
\* the series, and the last slow average differs from the last reading.
C9_Witness ==
    /\ MavgComputed
    /\ self.slow_mavg_window.num < N
    /\ LET k == N - self.slow_mavg_window.num + 1
       IN  /\ ~Eq(Col(self, "slow_ma")[k], Col(self, "values")[N])
           /\ Eq(Col(self, "slow_ma")[k + 1], Col(self, "values")[N])

IsConstant(values) == \A i \in 1..Len(values) : values[i] = values[1]

\* The length of the run of rows, ending at row i, whose |delta_ma| is
\* below plateau_delta.
RunLength(obj, i) ==
    Cardinality({k \in 1..i :
        \A j \in k..i : Lt(AbsVal(Col(obj, "delta_ma")[j]), obj.plateau_delta)})

PlateauComputed == call.op = "detect_plateau" /\ call.ret = "True"

\* The flags of a constant series: 0 below index plateau_length (counted
\* from 0) and 1 from it on.
ConstantSeriesFlags ==
    \A i \in 1..Len(Col(self, "values")) :
        Col(self, "plateau_alert")[i]
            = IF Ge(PyInt(i - 1), self.plateau_length) THEN 1 ELSE 0

====
